---------------------------- MODULE Spec2Model ----------------------------
(***************************************************************************)
(* A model of the DecisionDashboard component                              *)
(* (src/src/components/DecisionDashboard/DecisionDashboard.tsx): the       *)
(* step wizard, its form state, the delayed submission and the heuristic   *)
(* analysis generator.                                                     *)
(*                                                                         *)
(* Texts are sequences of one-character strings, so that toLowerCase and   *)
(* includes are computed rather than assumed.  A value of Math.random() is *)
(* the integer k standing for k / RandDenom.  Positions are kept in units  *)
(* of 1 / RandDenom and sentiment magnitudes in units of                   *)
(* 1 / (10 * RandDenom), so that all arithmetic is exact.                  *)
(***************************************************************************)
EXTENDS Integers, Sequences, FiniteSets, TLC

VARIABLES
    decision,              \* [question, balanceScore, timeHorizon]
    options,               \* the two option slots
    stakes,
    selectedValues,
    initialIntuition,
    confidenceScore,
    loading,
    submitted,
    analysis,              \* null or the stored Analysis
    error,                 \* Null or the validation message
    currentStep,
    showSafetyDialog,
    safetyMessage,
    showBiasInfo,          \* Null or the bias type being viewed
    showThirdOption,
    showTimeCapsule,
    timeCapsuleScheduled,
    journalSaved,
    showJournalDialog,
    pending,               \* suspended handleSubmit calls, oldest first
    edits,                 \* field-change events so far in this run
    lastEvent              \* the handler that ran last

vars == << decision, options, stakes, selectedValues, initialIntuition,
           confidenceScore, loading, submitted, analysis, error, currentStep,
           showSafetyDialog, safetyMessage, showBiasInfo, showThirdOption,
           showTimeCapsule, timeCapsuleScheduled, journalSaved,
           showJournalDialog, pending, edits, lastEvent >>

formVars == << decision, options, stakes, selectedValues, initialIntuition,
               confidenceScore >>

flagVars == << showBiasInfo, showThirdOption, showTimeCapsule,
               timeCapsuleScheduled, journalSaved, showJournalDialog >>

safetyVars == << showSafetyDialog, safetyMessage >>

-----------------------------------------------------------------------------
(* Bounds and program constants *)

\* Resolution of the random source: Math.random() = k / RandDenom.
RandDenom == 100

\* A run holds at most this many field-change events.
MaxEdits == 4

\* "Select up to 3 values": the MenuItem disabled rule.
MaxSelectedValues == 3

\* The slider defaults and the `|| 50` fallbacks of handleSubmit.
DefaultScore == 50

DefaultConfidence == 70

-----------------------------------------------------------------------------
(* Values the code uses for "nothing" *)

Null == "null"

NullAnalysis == [null |-> TRUE]

EmptyText == << >>

-----------------------------------------------------------------------------
(* Text helpers *)

UpperCase ==
    << "A", "B", "C", "D", "E", "F", "G", "H", "I", "J", "K", "L", "M",
       "N", "O", "P", "Q", "R", "S", "T", "U", "V", "W", "X", "Y", "Z" >>

LowerCase ==
    << "a", "b", "c", "d", "e", "f", "g", "h", "i", "j", "k", "l", "m",
       "n", "o", "p", "q", "r", "s", "t", "u", "v", "w", "x", "y", "z" >>

LowerChar(c) ==
    IF \E i \in 1..Len(UpperCase) : UpperCase[i] = c
    THEN LowerCase[CHOOSE i \in 1..Len(UpperCase) : UpperCase[i] = c]
    ELSE c

\* String.prototype.toLowerCase
ToLowerCase(s) == [i \in 1..Len(s) |-> LowerChar(s[i])]

\* String.prototype.includes
Includes(s, w) ==
    \E i \in 0..(Len(s) - Len(w)) : SubSeq(s, i + 1, i + Len(w)) = w

\* JavaScript truthiness of a string and of a number
Truthy(s) == s # EmptyText

\* Faulty variant: the fallback replaces every value
OrDefault_Always(n, d) == d

OrDefault(n, d) == IF n = 0 THEN d ELSE n

Max(a, b) == IF a > b THEN a ELSE b

Min(a, b) == IF a < b THEN a ELSE b

\* Math.floor(Math.random() * n) for the draw k
FloorRandom(k, n) == (k * n) \div RandDenom

-----------------------------------------------------------------------------
(* Catalogs *)

HARMFUL_KEYWORDS ==
    << <<"k", "i", "l", "l">>,
       <<"s", "u", "i", "c", "i", "d", "e">>,
       <<"m", "u", "r", "d", "e", "r">>,
       <<"h", "u", "r", "t">>,
       <<"h", "a", "r", "m">>,
       <<"d", "i", "e">>,
       <<"d", "e", "a", "t", "h">>,
       <<"v", "i", "o", "l", "e", "n", "t">>,
       <<"w", "e", "a", "p", "o", "n">>,
       <<"g", "u", "n">>,
       <<"b", "o", "m", "b">>,
       <<"a", "t", "t", "a", "c", "k">>,
       <<"d", "e", "s", "t", "r", "o", "y">>,
       <<"r", "e", "v", "e", "n", "g", "e">>,
       <<"i", "l", "l", "e", "g", "a", "l">>,
       <<"c", "r", "i", "m", "e">> >>

COMMON_VALUES ==
    << <<"F", "a", "m", "i", "l", "y">>,
       <<"H", "e", "a", "l", "t", "h">>,
       <<"F", "i", "n", "a", "n", "c", "i", "a", "l", " ", "S", "e", "c", "u", "r", "i", "t", "y">>,
       <<"C", "a", "r", "e", "e", "r", " ", "G", "r", "o", "w", "t", "h">>,
       <<"H", "a", "p", "p", "i", "n", "e", "s", "s">>,
       <<"F", "r", "e", "e", "d", "o", "m">>,
       <<"S", "t", "a", "b", "i", "l", "i", "t", "y">>,
       <<"A", "d", "v", "e", "n", "t", "u", "r", "e">>,
       <<"L", "e", "a", "r", "n", "i", "n", "g">>,
       <<"R", "e", "l", "a", "t", "i", "o", "n", "s", "h", "i", "p", "s">>,
       <<"C", "o", "m", "m", "u", "n", "i", "t", "y">>,
       <<"S", "p", "i", "r", "i", "t", "u", "a", "l", "i", "t", "y">>,
       <<"C", "r", "e", "a", "t", "i", "v", "i", "t", "y">>,
       <<"A", "c", "h", "i", "e", "v", "e", "m", "e", "n", "t">>,
       <<"B", "a", "l", "a", "n", "c", "e">> >>

COGNITIVE_BIASES ==
    << [biasType |-> "Loss Aversion",
        description |-> "The tendency to prefer avoiding losses over acquiring equivalent gains.",
        suggestion |-> "Try to evaluate potential gains with the same weight as potential losses."],
       [biasType |-> "Confirmation Bias",
        description |-> "The tendency to search for or interpret information in a way that confirms one's preconceptions.",
        suggestion |-> "Actively seek out information that challenges your initial assumptions."],
       [biasType |-> "Recency Bias",
        description |-> "The tendency to weigh recent events more heavily than earlier events.",
        suggestion |-> "Consider the full history and pattern of outcomes, not just recent experiences."],
       [biasType |-> "Status Quo Bias",
        description |-> "The preference for the current state of affairs, leading to resistance to change.",
        suggestion |-> "Evaluate the status quo option as critically as you would any new option."],
       [biasType |-> "Emotional Reasoning",
        description |-> "Making decisions based on how you feel rather than objective evidence.",
        suggestion |-> "Acknowledge your emotions, but also look for concrete facts to support your decision."] >>

SAFETY_MESSAGE ==
    "It seems like your question might be about a concerning topic. If you're feeling overwhelmed or having harmful thoughts, please consider reaching out to a mental health professional or a trusted person in your life. You can also call or text a crisis helpline for immediate support."

ERR_QUESTION == "Please enter a decision question"

ERR_INTUITION == "Please share your initial intuition"

ERR_OPTIONS == "Please enter at least one option you are considering"

-----------------------------------------------------------------------------
(* The heuristic analysis generator: the body of handleSubmit after the    *)
(* delay.  snap is the state the suspended call closed over, rnd the       *)
(* values its calls of Math.random() return.                               *)

Undefined == [undefined |-> TRUE]

EmptyPositions == [k \in {} |-> [x |-> 0, y |-> 0]]

\* obj[key] = value on a Record<string, OptionPosition>
PutPosition(m, key, value) ==
    [k \in (DOMAIN m) \cup {key} |-> IF k = key THEN value ELSE m[k]]

Clamp(lo, hi, v) == Max(lo, Min(hi, v))

\* Faulty variant: the second option is drawn in the first option's quadrant
generatePosition_SameQuadrant(baseX, baseY, isSecondOption, rx, ry) ==
    LET xVariance == IF isSecondOption THEN 40 ELSE 20
        yVariance == IF isSecondOption THEN 40 ELSE 20
        firstQuadrantX == baseX > 50 * RandDenom
        firstQuadrantY == baseY > 50 * RandDenom
    IN  IF isSecondOption
        THEN [x |-> IF firstQuadrantX
                    THEN Clamp(55 * RandDenom, 90 * RandDenom, 70 * RandDenom + rx * 15)
                    ELSE Clamp(10 * RandDenom, 45 * RandDenom, 30 * RandDenom + rx * 15),
              y |-> IF firstQuadrantY
                    THEN Clamp(55 * RandDenom, 90 * RandDenom, 70 * RandDenom + ry * 15)
                    ELSE Clamp(10 * RandDenom, 45 * RandDenom, 30 * RandDenom + ry * 15)]
        ELSE [x |-> Clamp(15 * RandDenom, 85 * RandDenom,
                          baseX + (rx * xVariance - (xVariance \div 2) * RandDenom)),
              y |-> Clamp(15 * RandDenom, 85 * RandDenom,
                          baseY + (ry * yVariance - (yVariance \div 2) * RandDenom))]

generatePosition(baseX, baseY, isSecondOption, rx, ry) ==
    LET xVariance == IF isSecondOption THEN 40 ELSE 20
        yVariance == IF isSecondOption THEN 40 ELSE 20
        firstQuadrantX == baseX > 50 * RandDenom
        firstQuadrantY == baseY > 50 * RandDenom
    IN  IF isSecondOption
        THEN [x |-> IF firstQuadrantX
                    THEN Clamp(10 * RandDenom, 45 * RandDenom, 30 * RandDenom + rx * 15)
                    ELSE Clamp(55 * RandDenom, 90 * RandDenom, 70 * RandDenom + rx * 15),
              y |-> IF firstQuadrantY
                    THEN Clamp(10 * RandDenom, 45 * RandDenom, 30 * RandDenom + ry * 15)
                    ELSE Clamp(55 * RandDenom, 90 * RandDenom, 70 * RandDenom + ry * 15)]
        ELSE [x |-> Clamp(15 * RandDenom, 85 * RandDenom,
                          baseX + (rx * xVariance - (xVariance \div 2) * RandDenom)),
              y |-> Clamp(15 * RandDenom, 85 * RandDenom,
                          baseY + (ry * yVariance - (yVariance \div 2) * RandDenom))]

Recommendation(snap, balanceScore, timeHorizon, rnd) ==
    LET isMoreLogical == balanceScore > 50
        isLongTerm == timeHorizon > 50
        opts == snap.options
        vals == snap.selectedValues
        bothOptions == Truthy(opts[1]) /\ Truthy(opts[2])
        logical ==
            << [kind |-> "logical", question |-> snap.decision.question,
                percent |-> balanceScore] >>
            \o (IF Len(vals) > 0
                THEN << [kind |-> "value",
                         value |-> ToLowerCase(vals[FloorRandom(rnd.valuePick, Len(vals)) + 1])] >>
                ELSE << >>)
            \o (IF bothOptions
                THEN << [kind |-> "between", first |-> opts[1], second |-> opts[2]] >>
                ELSE << [kind |-> "emotionalImpact"] >>)
        emotional ==
            << [kind |-> "emotional", question |-> snap.decision.question,
                percent |-> 100 - balanceScore] >>
            \o (IF Truthy(snap.stakes)
                THEN << [kind |-> "stakes", stakes |-> snap.stakes] >>
                ELSE << >>)
            \o (IF bothOptions
                THEN << [kind |-> "prosCons", first |-> opts[1], second |-> opts[2]] >>
                ELSE << [kind |-> "prosConsGeneric"] >>)
    IN  (IF isMoreLogical THEN logical ELSE emotional)
        \o << [kind |-> "intuition", intuition |-> snap.initialIntuition] >>
        \o << [kind |-> IF isLongTerm THEN "longTerm" ELSE "shortTerm"] >>

\* Faulty variant: a value factor is scored like a standard factor
ValueFactors_AnyScore(vals, rnd) ==
    [i \in 1..Len(vals) |->
        [name |-> vals[i] \o <<" ", "a", "l", "i", "g", "n", "m", "e", "n", "t">>,
         score |-> FloorRandom(rnd.valueScore[i], 100),
         valueAlignment |-> vals[i]]]

ValueFactors(vals, rnd) ==
    [i \in 1..Len(vals) |->
        [name |-> vals[i] \o <<" ", "a", "l", "i", "g", "n", "m", "e", "n", "t">>,
         score |-> FloorRandom(rnd.valueScore[i], 40) + 60,
         valueAlignment |-> vals[i]]]

Factors(snap, financialImpact, emotionalWellbeing, longTermConsequences, rnd) ==
    ValueFactors(snap.selectedValues, rnd)
    \o << [name |-> "Financial impact", score |-> financialImpact],
          [name |-> "Emotional well-being", score |-> emotionalWellbeing],
          [name |-> "Long-term consequences", score |-> longTermConsequences] >>
    \o (IF Truthy(snap.stakes)
        THEN << [name |-> <<"I", "m", "p", "a", "c", "t", " ", "o", "n", " ">> \o snap.stakes,
                 score |-> FloorRandom(rnd.stakesImpact, 100)] >>
        ELSE << >>)

LossAversion(financialImpact, balanceScore) ==
    financialImpact > 70 /\ balanceScore < 40

EmotionalReasoning(emotionalWellbeing, balanceScore) ==
    balanceScore < 30 /\ emotionalWellbeing > 80

\* Faulty variant: the status-quo test reads both option slots
StatusQuo_AnySlot(opts) ==
    \E i \in 1..2 :
        \/ Includes(ToLowerCase(opts[i]), <<"s", "t", "a", "y">>)
        \/ Includes(ToLowerCase(opts[i]), <<"c", "u", "r", "r", "e", "n", "t">>)

StatusQuo(opts) ==
    \/ Includes(ToLowerCase(opts[1]), <<"s", "t", "a", "y">>)
    \/ Includes(ToLowerCase(opts[1]), <<"c", "u", "r", "r", "e", "n", "t">>)

DetectedBiases(snap, financialImpact, emotionalWellbeing, balanceScore) ==
    (IF LossAversion(financialImpact, balanceScore)
     THEN << COGNITIVE_BIASES[1] >> ELSE << >>)
    \o (IF EmotionalReasoning(emotionalWellbeing, balanceScore)
        THEN << COGNITIVE_BIASES[5] >> ELSE << >>)
    \o (IF StatusQuo(snap.options)
        THEN << COGNITIVE_BIASES[4] >> ELSE << >>)

SentimentOf(rnd) ==
    LET positive == rnd.positive * 7 + 3 * RandDenom
        negative == rnd.negative * 3
        neutral == rnd.neutral * 2
    IN  [positive |-> positive, negative |-> negative, neutral |-> neutral,
         tone |-> IF positive > 6 * RandDenom THEN "Growth-Oriented Language"
                  ELSE IF negative > 2 * RandDenom THEN "High Tension Detected"
                  ELSE "Mostly Neutral with Slight Positivity"]

OptionPositions(snap, balanceScore, timeHorizon, rnd) ==
    LET opts == snap.options
        first == IF Truthy(opts[1])
                 THEN PutPosition(EmptyPositions, opts[1],
                          generatePosition(balanceScore * RandDenom,
                                           timeHorizon * RandDenom,
                                           FALSE, rnd.x0, rnd.y0))
                 ELSE EmptyPositions
        firstX == IF Truthy(opts[1]) THEN first[opts[1]].x ELSE 50 * RandDenom
        firstY == IF Truthy(opts[1]) THEN first[opts[1]].y ELSE 50 * RandDenom
    IN  IF Truthy(opts[2])
        THEN PutPosition(first, opts[2],
                 generatePosition(firstX, firstY, TRUE, rnd.x1, rnd.y1))
        ELSE first

ValueConflicts(vals, rnd) ==
    IF Len(vals) >= 2 /\ 2 * rnd.conflict > RandDenom
    THEN << [kind |-> "tension", value1 |-> vals[1], value2 |-> vals[2]] >>
    ELSE << >>

\* Faulty variant: one non-empty option is enough for a third option
ThirdOption_EitherOption(opts, rnd) ==
    IF (Truthy(opts[1]) \/ Truthy(opts[2])) /\ 10 * rnd.third > 7 * RandDenom
    THEN [kind |-> "hybrid", first |-> ToLowerCase(opts[1]),
          second |-> ToLowerCase(opts[2])]
    ELSE Undefined

ThirdOption(opts, rnd) ==
    IF Truthy(opts[1]) /\ Truthy(opts[2]) /\ 10 * rnd.third > 7 * RandDenom
    THEN [kind |-> "hybrid", first |-> ToLowerCase(opts[1]),
          second |-> ToLowerCase(opts[2])]
    ELSE Undefined

mockAnalysis(snap, rnd) ==
    LET balanceScore == OrDefault(snap.decision.balanceScore, DefaultScore)
        timeHorizon == OrDefault(snap.decision.timeHorizon, DefaultScore)
        financialImpact == FloorRandom(rnd.financial, 100)
        emotionalWellbeing == FloorRandom(rnd.emotional, 100)
        longTermConsequences == FloorRandom(rnd.longTerm, 100)
    IN  [recommendation |-> Recommendation(snap, balanceScore, timeHorizon, rnd),
         factors |-> Factors(snap, financialImpact, emotionalWellbeing,
                             longTermConsequences, rnd),
         sentiment |-> SentimentOf(rnd),
         detectedBiases |-> DetectedBiases(snap, financialImpact,
                                           emotionalWellbeing, balanceScore),
         valueConflicts |-> ValueConflicts(snap.selectedValues, rnd),
         optionPositions |-> OptionPositions(snap, balanceScore, timeHorizon, rnd),
         thirdOption |-> ThirdOption(snap.options, rnd)]

-----------------------------------------------------------------------------
(* What the rendered view lets the user do.  A step's controls exist only  *)
(* while that step is rendered, carry disabled={loading}, and lie behind   *)
(* the backdrop of any open Dialog.                                        *)

DialogOpen == showSafetyDialog \/ showTimeCapsule \/ showJournalDialog

\* Faulty variant: the controls are not disabled while loading
StepControls_WhileLoading(step) == currentStep = step /\ ~DialogOpen

\* {currentStep === step && (...)} with disabled={loading} on every control
StepControls(step) == currentStep = step /\ ~loading /\ ~DialogOpen

\* {currentStep === 'analysis' && analysis && (...)}
AnalysisView == currentStep = "analysis" /\ analysis # NullAnalysis /\ ~DialogOpen

\* The state a handleSubmit call closes over
Closure ==
    [decision |-> decision, options |-> options, stakes |-> stakes,
     selectedValues |-> selectedValues, initialIntuition |-> initialIntuition]

-----------------------------------------------------------------------------
(* Field-change handlers *)

foundHarmfulWord(question) ==
    \E i \in 1..Len(HARMFUL_KEYWORDS) :
        Includes(ToLowerCase(question), HARMFUL_KEYWORDS[i])

\* Faulty variant: a question with a denylisted term is not stored
handleQuestionChange_BlocksHarmful(question) ==
    /\ StepControls("question")
    /\ IF foundHarmfulWord(question)
       THEN /\ safetyMessage' = SAFETY_MESSAGE
            /\ showSafetyDialog' = TRUE
            /\ UNCHANGED << decision, submitted, analysis, currentStep >>
       ELSE /\ UNCHANGED safetyVars
            /\ decision' = [decision EXCEPT !.question = question]
            /\ IF submitted
               THEN /\ submitted' = FALSE
                    /\ analysis' = NullAnalysis
                    /\ currentStep' = "question"
               ELSE UNCHANGED << submitted, analysis, currentStep >>
    /\ UNCHANGED << options, stakes, selectedValues, initialIntuition,
                    confidenceScore, loading, error, flagVars, pending >>

\* Faulty variant: the question edit does not invalidate a completed analysis
handleQuestionChange_NoInvalidate(question) ==
    /\ StepControls("question")
    /\ IF foundHarmfulWord(question)
       THEN /\ safetyMessage' = SAFETY_MESSAGE
            /\ showSafetyDialog' = TRUE
       ELSE UNCHANGED safetyVars
    /\ decision' = [decision EXCEPT !.question = question]
    /\ UNCHANGED << options, stakes, selectedValues, initialIntuition,
                    confidenceScore, loading, submitted, analysis, error,
                    currentStep, flagVars, pending >>

handleQuestionChange(question) ==
    /\ StepControls("question")
    /\ IF foundHarmfulWord(question)
       THEN /\ safetyMessage' = SAFETY_MESSAGE
            /\ showSafetyDialog' = TRUE
       ELSE UNCHANGED safetyVars
    /\ decision' = [decision EXCEPT !.question = question]
    /\ IF submitted
       THEN /\ submitted' = FALSE
            /\ analysis' = NullAnalysis
            /\ currentStep' = "question"
       ELSE UNCHANGED << submitted, analysis, currentStep >>
    /\ UNCHANGED << options, stakes, selectedValues, initialIntuition,
                    confidenceScore, loading, error, flagVars, pending >>

handleBalanceChange(newValue) ==
    /\ StepControls("question")
    /\ decision' = [decision EXCEPT !.balanceScore = newValue]
    /\ UNCHANGED << options, stakes, selectedValues, initialIntuition,
                    confidenceScore, loading, submitted, analysis, error,
                    currentStep, safetyVars, flagVars, pending >>

handleTimeHorizonChange(newValue) ==
    /\ StepControls("question")
    /\ decision' = [decision EXCEPT !.timeHorizon = newValue]
    /\ UNCHANGED << options, stakes, selectedValues, initialIntuition,
                    confidenceScore, loading, submitted, analysis, error,
                    currentStep, safetyVars, flagVars, pending >>

\* Faulty variant: the intuition edit also clears the validation error
handleInitialIntuitionChange_ClearsError(value) ==
    /\ StepControls("intuition")
    /\ initialIntuition' = value
    /\ error' = Null
    /\ UNCHANGED << decision, options, stakes, selectedValues,
                    confidenceScore, loading, submitted, analysis,
                    currentStep, safetyVars, flagVars, pending >>

handleInitialIntuitionChange(value) ==
    /\ StepControls("intuition")
    /\ initialIntuition' = value
    /\ UNCHANGED << decision, options, stakes, selectedValues,
                    confidenceScore, loading, submitted, analysis, error,
                    currentStep, safetyVars, flagVars, pending >>

handleConfidenceChange(newValue) ==
    /\ AnalysisView
    /\ confidenceScore' = newValue
    /\ UNCHANGED << decision, options, stakes, selectedValues,
                    initialIntuition, loading, submitted, analysis, error,
                    currentStep, safetyVars, flagVars, pending >>

handleOptionChange(index, value) ==
    /\ StepControls("context")
    /\ options' = [options EXCEPT ![index + 1] = value]
    /\ UNCHANGED << decision, stakes, selectedValues, initialIntuition,
                    confidenceScore, loading, submitted, analysis, error,
                    currentStep, safetyVars, flagVars, pending >>

\* Faulty variant: the stakes field is not disabled while loading
handleStakesChange_WhileLoading(value) ==
    /\ currentStep = "context" /\ ~DialogOpen
    /\ stakes' = value
    /\ UNCHANGED << decision, options, selectedValues, initialIntuition,
                    confidenceScore, loading, submitted, analysis, error,
                    currentStep, safetyVars, flagVars, pending >>

\* Faulty variant: the stakes edit invalidates a completed analysis as the question's does
handleStakesChange_Invalidates(value) ==
    /\ StepControls("context")
    /\ stakes' = value
    /\ IF submitted
       THEN /\ submitted' = FALSE
            /\ analysis' = NullAnalysis
            /\ currentStep' = "question"
       ELSE UNCHANGED << submitted, analysis, currentStep >>
    /\ UNCHANGED << decision, options, selectedValues, initialIntuition,
                    confidenceScore, loading, error, safetyVars, flagVars,
                    pending >>

handleStakesChange(value) ==
    /\ StepControls("context")
    /\ stakes' = value
    /\ UNCHANGED << decision, options, selectedValues, initialIntuition,
                    confidenceScore, loading, submitted, analysis, error,
                    currentStep, safetyVars, flagVars, pending >>

\* selectedValues.includes(value)
Selected(value) == \E i \in 1..Len(selectedValues) : selectedValues[i] = value

\* Faulty variant: the menu closes one selection too late
MenuItemDisabled_OffByOne(value) ==
    Len(selectedValues) > MaxSelectedValues /\ ~Selected(value)

\* <MenuItem disabled={selectedValues.length >= 3 && !selectedValues.includes(value)}>
MenuItemDisabled(value) ==
    Len(selectedValues) >= MaxSelectedValues /\ ~Selected(value)

\* The array a <Select multiple> passes to onChange when `value` is clicked:
\* the selection without it if it was selected, with it appended if not.
Toggled(value) ==
    IF Selected(value)
    THEN SelectSeq(selectedValues, LAMBDA v : v # value)
    ELSE Append(selectedValues, value)

handleValueChange(value) ==
    /\ StepControls("context")
    /\ ~MenuItemDisabled(value)
    /\ selectedValues' = Toggled(value)
    /\ UNCHANGED << decision, options, stakes, initialIntuition,
                    confidenceScore, loading, submitted, analysis, error,
                    currentStep, safetyVars, flagVars, pending >>

-----------------------------------------------------------------------------
(* Navigation and submission *)

\* Faulty variant: setError(null) is missing
handleSubmit_KeepsError ==
    /\ UNCHANGED error
    /\ loading' = TRUE
    /\ pending' = Append(pending, Closure)

\* handleSubmit up to its await: the call is suspended on the 1500 ms timer
handleSubmit ==
    /\ error' = Null
    /\ loading' = TRUE
    /\ pending' = Append(pending, Closure)

\* Faulty variant: the empty-question check is missing
continueFromQuestion_NoValidation ==
    /\ error' = Null
    /\ currentStep' = "intuition"
    /\ UNCHANGED << loading, pending >>

\* if (currentStep === 'question') { ... }
continueFromQuestion ==
    IF ~Truthy(decision.question)
    THEN /\ error' = ERR_QUESTION
         /\ UNCHANGED << currentStep, loading, pending >>
    ELSE /\ error' = Null
         /\ currentStep' = "intuition"
         /\ UNCHANGED << loading, pending >>

\* Faulty variant: the intuition step validates the question field instead
continueFromIntuition_ChecksQuestion ==
    IF ~Truthy(decision.question)
    THEN /\ error' = ERR_INTUITION
         /\ UNCHANGED << currentStep, loading, pending >>
    ELSE /\ error' = Null
         /\ currentStep' = "context"
         /\ UNCHANGED << loading, pending >>

\* else if (currentStep === 'intuition') { ... }
continueFromIntuition ==
    IF ~Truthy(initialIntuition)
    THEN /\ error' = ERR_INTUITION
         /\ UNCHANGED << currentStep, loading, pending >>
    ELSE /\ error' = Null
         /\ currentStep' = "context"
         /\ UNCHANGED << loading, pending >>

\* Faulty variant: the `return` after the options error is missing
continueFromContext_MissingReturn ==
    /\ handleSubmit
    /\ UNCHANGED currentStep

\* else if (currentStep === 'context') { ... }
continueFromContext ==
    IF options[1] = EmptyText /\ options[2] = EmptyText
    THEN /\ error' = ERR_OPTIONS
         /\ UNCHANGED << currentStep, loading, pending >>
    ELSE /\ handleSubmit
         /\ UNCHANGED currentStep

handleContinue ==
    /\ currentStep \in {"question", "intuition", "context"}
    /\ StepControls(currentStep)
    /\ IF currentStep = "question" THEN continueFromQuestion
       ELSE IF currentStep = "intuition" THEN continueFromIntuition
       ELSE continueFromContext
    /\ UNCHANGED << formVars, submitted, analysis, safetyVars, flagVars >>

\* Faulty variant: back from the analysis enters the reserved step
BackStep_ToConfidence(step) ==
    IF step = "intuition" THEN "question"
    ELSE IF step = "context" THEN "intuition"
    ELSE IF step = "analysis" THEN "confidence"
    ELSE step

\* Faulty variant: back from the analysis returns to the first step
BackStep_ToQuestion(step) ==
    IF step = "intuition" THEN "question"
    ELSE IF step = "context" THEN "intuition"
    ELSE IF step = "analysis" THEN "question"
    ELSE step

BackStep(step) ==
    IF step = "intuition" THEN "question"
    ELSE IF step = "context" THEN "intuition"
    ELSE IF step = "analysis" THEN "context"
    ELSE step

handleBack ==
    /\ \/ currentStep \in {"intuition", "context"} /\ StepControls(currentStep)
       \/ AnalysisView
    /\ currentStep' = BackStep(currentStep)
    /\ UNCHANGED << formVars, loading, submitted, analysis, error,
                    safetyVars, flagVars, pending >>

\* Faulty variant: a new analysis clears the time-capsule and journal flags
handleSubmitResume_ResetsFlags(rnd) ==
    /\ pending # << >>
    /\ analysis' = mockAnalysis(Head(pending), rnd)
    /\ submitted' = TRUE
    /\ currentStep' = "analysis"
    /\ loading' = FALSE
    /\ pending' = Tail(pending)
    /\ timeCapsuleScheduled' = FALSE
    /\ journalSaved' = FALSE
    /\ UNCHANGED << formVars, error, safetyVars, showBiasInfo,
                    showThirdOption, showTimeCapsule, showJournalDialog >>

\* Faulty variant: setSubmitted(true) is missing
handleSubmitResume_NotSubmitted(rnd) ==
    /\ pending # << >>
    /\ analysis' = mockAnalysis(Head(pending), rnd)
    /\ currentStep' = "analysis"
    /\ loading' = FALSE
    /\ pending' = Tail(pending)
    /\ UNCHANGED << formVars, submitted, error, safetyVars, flagVars >>

\* handleSubmit from the timer's firing to its end.  Nothing in the try
\* block can throw on the states the wizard reaches, so the catch branch
\* has no transition.
handleSubmitResume(rnd) ==
    /\ pending # << >>
    /\ analysis' = mockAnalysis(Head(pending), rnd)
    /\ submitted' = TRUE
    /\ currentStep' = "analysis"
    /\ loading' = FALSE
    /\ pending' = Tail(pending)
    /\ UNCHANGED << formVars, error, safetyVars, flagVars >>

\* Faulty variant: setConfidenceScore(70) is missing
startNewDecision_KeepsConfidence ==
    /\ AnalysisView
    /\ submitted' = FALSE
    /\ analysis' = NullAnalysis
    /\ currentStep' = "question"
    /\ decision' = [question |-> EmptyText, balanceScore |-> DefaultScore,
                    timeHorizon |-> DefaultScore]
    /\ options' = << EmptyText, EmptyText >>
    /\ stakes' = EmptyText
    /\ selectedValues' = << >>
    /\ initialIntuition' = EmptyText
    /\ showBiasInfo' = Null
    /\ showThirdOption' = FALSE
    /\ timeCapsuleScheduled' = FALSE
    /\ journalSaved' = FALSE
    /\ UNCHANGED << confidenceScore, loading, error, safetyVars,
                    showTimeCapsule, showJournalDialog, pending >>

\* "Start New Decision"
startNewDecision ==
    /\ AnalysisView
    /\ submitted' = FALSE
    /\ analysis' = NullAnalysis
    /\ currentStep' = "question"
    /\ decision' = [question |-> EmptyText, balanceScore |-> DefaultScore,
                    timeHorizon |-> DefaultScore]
    /\ options' = << EmptyText, EmptyText >>
    /\ stakes' = EmptyText
    /\ selectedValues' = << >>
    /\ initialIntuition' = EmptyText
    /\ confidenceScore' = DefaultConfidence
    /\ showBiasInfo' = Null
    /\ showThirdOption' = FALSE
    /\ timeCapsuleScheduled' = FALSE
    /\ journalSaved' = FALSE
    /\ UNCHANGED << loading, error, safetyVars, showTimeCapsule,
                    showJournalDialog, pending >>

-----------------------------------------------------------------------------
(* Secondary toggles *)

learnAboutBias(biasType) ==
    /\ AnalysisView
    /\ \E i \in 1..Len(analysis.detectedBiases) :
          analysis.detectedBiases[i].biasType = biasType
    /\ showBiasInfo # biasType
    /\ showBiasInfo' = biasType
    /\ UNCHANGED << formVars, loading, submitted, analysis, error, currentStep,
                    safetyVars, showThirdOption, showTimeCapsule,
                    timeCapsuleScheduled, journalSaved, showJournalDialog,
                    pending >>

hideBiasDetails ==
    /\ AnalysisView
    /\ \E i \in 1..Len(analysis.detectedBiases) :
          analysis.detectedBiases[i].biasType = showBiasInfo
    /\ showBiasInfo' = Null
    /\ UNCHANGED << formVars, loading, submitted, analysis, error, currentStep,
                    safetyVars, showThirdOption, showTimeCapsule,
                    timeCapsuleScheduled, journalSaved, showJournalDialog,
                    pending >>

exploreThirdOption ==
    /\ AnalysisView
    /\ analysis.thirdOption # Undefined
    /\ ~showThirdOption
    /\ showThirdOption' = TRUE
    /\ UNCHANGED << formVars, loading, submitted, analysis, error, currentStep,
                    safetyVars, showBiasInfo, showTimeCapsule,
                    timeCapsuleScheduled, journalSaved, showJournalDialog,
                    pending >>

closeSafetyDialog ==
    /\ showSafetyDialog
    /\ showSafetyDialog' = FALSE
    /\ UNCHANGED << formVars, loading, submitted, analysis, error, currentStep,
                    safetyMessage, flagVars, pending >>

openTimeCapsule ==
    /\ AnalysisView
    /\ ~timeCapsuleScheduled
    /\ showTimeCapsule' = TRUE
    /\ UNCHANGED << formVars, loading, submitted, analysis, error, currentStep,
                    safetyVars, showBiasInfo, showThirdOption,
                    timeCapsuleScheduled, journalSaved, showJournalDialog,
                    pending >>

closeTimeCapsule ==
    /\ showTimeCapsule
    /\ showTimeCapsule' = FALSE
    /\ UNCHANGED << formVars, loading, submitted, analysis, error, currentStep,
                    safetyVars, showBiasInfo, showThirdOption,
                    timeCapsuleScheduled, journalSaved, showJournalDialog,
                    pending >>

scheduleCheckIn ==
    /\ showTimeCapsule
    /\ timeCapsuleScheduled' = TRUE
    /\ showTimeCapsule' = FALSE
    /\ UNCHANGED << formVars, loading, submitted, analysis, error, currentStep,
                    safetyVars, showBiasInfo, showThirdOption, journalSaved,
                    showJournalDialog, pending >>

openJournalDialog ==
    /\ AnalysisView
    /\ showJournalDialog' = TRUE
    /\ UNCHANGED << formVars, loading, submitted, analysis, error, currentStep,
                    safetyVars, showBiasInfo, showThirdOption, showTimeCapsule,
                    timeCapsuleScheduled, journalSaved, pending >>

closeJournalDialog ==
    /\ showJournalDialog
    /\ showJournalDialog' = FALSE
    /\ UNCHANGED << formVars, loading, submitted, analysis, error, currentStep,
                    safetyVars, showBiasInfo, showThirdOption, showTimeCapsule,
                    timeCapsuleScheduled, journalSaved, pending >>

saveToJournal ==
    /\ showJournalDialog
    /\ journalSaved' = TRUE
    /\ showJournalDialog' = FALSE
    /\ UNCHANGED << formVars, loading, submitted, analysis, error, currentStep,
                    safetyVars, showBiasInfo, showThirdOption, showTimeCapsule,
                    timeCapsuleScheduled, pending >>

-----------------------------------------------------------------------------
(* The inputs the specification draws from *)

QuestionTexts == { EmptyText, <<"G", "o", "?">>, <<"K", "i", "l", "l", "?">> }

SliderValues == { 0, DefaultScore, 80 }

IntuitionTexts == { EmptyText, <<"Y", "e", "s">> }

OptionTexts == { EmptyText, <<"S", "t", "a", "y">>, <<"M", "o", "v", "e">> }

StakesTexts == { EmptyText, <<"J", "o", "b">> }

ValueChoices == { COMMON_VALUES[1], COMMON_VALUES[2] }

ConfidenceValues == { DefaultConfidence, 40 }

BiasTypes == { COGNITIVE_BIASES[i].biasType : i \in 1..Len(COGNITIVE_BIASES) }

\* Every call of Math.random() returning k / RandDenom
Draw(k) ==
    [valuePick |-> k, valueScore |-> [i \in 1..Len(COMMON_VALUES) |-> k],
     financial |-> k, emotional |-> k, longTerm |-> k, stakesImpact |-> k,
     positive |-> k, negative |-> k, neutral |-> k,
     x0 |-> k, y0 |-> k, x1 |-> k, y1 |-> k, conflict |-> k, third |-> k]

Draws == { Draw(0), Draw(RandDenom - 1) }

-----------------------------------------------------------------------------
(* The specification *)

Init ==
    /\ decision = [question |-> EmptyText, balanceScore |-> DefaultScore,
                   timeHorizon |-> DefaultScore]
    /\ options = << EmptyText, EmptyText >>
    /\ stakes = EmptyText
    /\ selectedValues = << >>
    /\ initialIntuition = EmptyText
    /\ confidenceScore = DefaultConfidence
    /\ loading = FALSE
    /\ submitted = FALSE
    /\ analysis = NullAnalysis
    /\ error = Null
    /\ currentStep = "question"
    /\ showSafetyDialog = FALSE
    /\ safetyMessage = ""
    /\ showBiasInfo = Null
    /\ showThirdOption = FALSE
    /\ showTimeCapsule = FALSE
    /\ timeCapsuleScheduled = FALSE
    /\ journalSaved = FALSE
    /\ showJournalDialog = FALSE
    /\ pending = << >>
    /\ edits = 0
    /\ lastEvent = "none"

\* A field-change event, counted against MaxEdits.  A change event carries a
\* value other than the one the control shows.
Edit(handler) ==
    edits < MaxEdits /\ edits' = edits + 1 /\ lastEvent' = handler

\* Any other event
Event(handler) == UNCHANGED edits /\ lastEvent' = handler

QuestionChange ==
    /\ \E question \in QuestionTexts \ {decision.question} :
          handleQuestionChange(question)
    /\ Edit("handleQuestionChange")

BalanceChange ==
    /\ \E newValue \in SliderValues \ {decision.balanceScore} :
          handleBalanceChange(newValue)
    /\ Edit("handleBalanceChange")

TimeHorizonChange ==
    /\ \E newValue \in SliderValues \ {decision.timeHorizon} :
          handleTimeHorizonChange(newValue)
    /\ Edit("handleTimeHorizonChange")

InitialIntuitionChange ==
    /\ \E value \in IntuitionTexts \ {initialIntuition} :
          handleInitialIntuitionChange(value)
    /\ Edit("handleInitialIntuitionChange")

ConfidenceChange ==
    /\ \E newValue \in ConfidenceValues \ {confidenceScore} :
          handleConfidenceChange(newValue)
    /\ Edit("handleConfidenceChange")

OptionChange ==
    /\ \E index \in {0, 1} : \E value \in OptionTexts \ {options[index + 1]} :
          handleOptionChange(index, value)
    /\ Edit("handleOptionChange")

StakesChange ==
    /\ \E value \in StakesTexts \ {stakes} :
          handleStakesChange(value)
    /\ Edit("handleStakesChange")

ValueChange ==
    /\ \E value \in ValueChoices : handleValueChange(value)
    /\ Edit("handleValueChange")

Continue == handleContinue /\ Event("handleContinue")

Back == handleBack /\ Event("handleBack")

\* The timer of a suspended handleSubmit fires
SubmitResume ==
    /\ \E rnd \in Draws : handleSubmitResume(rnd)
    /\ Event("handleSubmit")

StartNew == startNewDecision /\ Event("startNewDecision")

LearnAboutBias ==
    /\ \E biasType \in BiasTypes : learnAboutBias(biasType)
    /\ Event("learnAboutBias")

HideBiasDetails == hideBiasDetails /\ Event("hideBiasDetails")

ExploreThirdOption == exploreThirdOption /\ Event("exploreThirdOption")

CloseSafetyDialog == closeSafetyDialog /\ Event("closeSafetyDialog")

OpenTimeCapsule == openTimeCapsule /\ Event("openTimeCapsule")

CloseTimeCapsule == closeTimeCapsule /\ Event("closeTimeCapsule")

ScheduleCheckIn == scheduleCheckIn /\ Event("scheduleCheckIn")

OpenJournalDialog == openJournalDialog /\ Event("openJournalDialog")

CloseJournalDialog == closeJournalDialog /\ Event("closeJournalDialog")

SaveToJournal == saveToJournal /\ Event("saveToJournal")

Next ==
    \/ QuestionChange
    \/ BalanceChange
    \/ TimeHorizonChange
    \/ InitialIntuitionChange
    \/ ConfidenceChange
    \/ OptionChange
    \/ StakesChange
    \/ ValueChange
    \/ Continue
    \/ Back
    \/ SubmitResume
    \/ StartNew
    \/ LearnAboutBias
    \/ HideBiasDetails
    \/ ExploreThirdOption
    \/ CloseSafetyDialog
    \/ OpenTimeCapsule
    \/ CloseTimeCapsule
    \/ ScheduleCheckIn
    \/ OpenJournalDialog
    \/ CloseJournalDialog
    \/ SaveToJournal

Spec == Init /\ [][Next]_vars

\* setTimeout fires every timer it was given
FairSpec == Spec /\ WF_vars(SubmitResume)

-----------------------------------------------------------------------------
(* The wizard at step 'context'.  The step is reached only through a       *)
(* non-empty question and a non-empty intuition, and every context field   *)
(* can hold any value there: fill it, go back, and advance again.          *)

AtContext(form) ==
    /\ decision = [question |-> <<"G", "o", "?">>,
                   balanceScore |-> form.balanceScore,
                   timeHorizon |-> form.timeHorizon]
    /\ options = form.options
    /\ stakes = form.stakes
    /\ selectedValues = form.selectedValues
    /\ initialIntuition = <<"Y", "e", "s">>
    /\ confidenceScore = DefaultConfidence
    /\ loading = FALSE
    /\ submitted = FALSE
    /\ analysis = NullAnalysis
    /\ error = Null
    /\ currentStep = "context"
    /\ showSafetyDialog = FALSE
    /\ safetyMessage = ""
    /\ showBiasInfo = Null
    /\ showThirdOption = FALSE
    /\ showTimeCapsule = FALSE
    /\ timeCapsuleScheduled = FALSE
    /\ journalSaved = FALSE
    /\ showJournalDialog = FALSE
    /\ pending = << >>
    /\ edits = 0
    /\ lastEvent = "handleContinue"

-----------------------------------------------------------------------------
(* The value-selection interface: the <Select multiple> of step 'context'  *)
(* with the first MenuSize entries of its menu.                            *)

MenuSize == 4

SelectableValues == { COMMON_VALUES[i] : i \in 1..MenuSize }

SelectionForms ==
    [balanceScore : SliderValues, timeHorizon : {DefaultScore},
     options : OptionTexts \X OptionTexts, stakes : StakesTexts,
     selectedValues : {<< >>}]

SelectionInit == \E form \in SelectionForms : AtContext(form)

ValueSelect ==
    /\ \E value \in SelectableValues : handleValueChange(value)
    /\ Edit("handleValueChange")

SelectionNext == ValueSelect

SelectionSpec == SelectionInit /\ [][SelectionNext]_vars

-----------------------------------------------------------------------------
(* Submissions: the wizard at step 'context' with a filled form, the       *)
(* "Analyze Decision" click, and the resumption of handleSubmit with any   *)
(* of the draws below.                                                     *)

\* The Slider's range (MUI defaults, marked 0% .. 100%)
SliderMin == 0

SliderMax == 100

SliderRange == SliderMin..SliderMax

SubmittedOptionTexts ==
    { EmptyText,
      <<"S", "t", "a", "y">>,
      <<"M", "o", "v", "e">>,
      <<"C", "U", "R", "R", "E", "N", "T">>,
      <<"S", "t", "a", "y", " ", "c", "u", "r", "r", "e", "n", "t", " ", "j", "o", "b">> }

ValueSelections ==
    { << >>,
      << COMMON_VALUES[1] >>,
      << COMMON_VALUES[2], COMMON_VALUES[1] >>,
      << COMMON_VALUES[3], COMMON_VALUES[1], COMMON_VALUES[2] >> }

\* Every position of the balance slider, on a plain form
ScoreSweep ==
    [balanceScore : SliderRange, timeHorizon : {DefaultScore},
     options : {<< <<"S", "t", "a", "y">>, <<"M", "o", "v", "e">> >>},
     stakes : StakesTexts,
     selectedValues : {<< >>, << COMMON_VALUES[1] >>}]

\* Every filling of the context fields, on a few slider positions
FormSweep ==
    [balanceScore : SliderValues, timeHorizon : SliderValues,
     options : SubmittedOptionTexts \X SubmittedOptionTexts,
     stakes : StakesTexts,
     selectedValues : ValueSelections]

\* Every position of the time-horizon slider, on a plain form
HorizonSweep ==
    [balanceScore : {DefaultScore}, timeHorizon : SliderRange,
     options : {<< <<"S", "t", "a", "y">>, <<"M", "o", "v", "e">> >>},
     stakes : {EmptyText},
     selectedValues : {<< >>}]

SubmissionForms == ScoreSweep \cup HorizonSweep \cup FormSweep

UniformDraws == { Draw(k) : k \in 0..(RandDenom - 1) }

Extremes == { 0, RandDenom \div 2, RandDenom - 1 }

\* Draws whose calls of Math.random() return different values
MixedDraws ==
    { [Draw(a) EXCEPT !.valuePick = b, !.financial = b, !.x0 = b, !.x1 = b,
                      !.third = b,
                      !.valueScore = [i \in 1..Len(COMMON_VALUES) |->
                                         IF i % 2 = 0 THEN b ELSE a]] :
        a \in Extremes, b \in Extremes }

SubmitDraws == UniformDraws \cup MixedDraws

SubmitInit == \E form \in SubmissionForms : AtContext(form)

\* The timer of the suspended handleSubmit fires
AnalysisReady ==
    /\ \E rnd \in SubmitDraws : handleSubmitResume(rnd)
    /\ Event("handleSubmit")

SubmitNext ==
    \/ Continue
    \/ AnalysisReady

SubmitSpec == SubmitInit /\ [][SubmitNext]_vars

-----------------------------------------------------------------------------
(* Properties of the step wizard *)

\* C1: advance at step 'question' with an empty question sets the error to
\* "Please enter a decision question" and leaves the step and every field
\* unchanged; with a non-empty question it clears the error and moves to
\* 'intuition'.
C1_AdvanceFromQuestion ==
    [][ (handleContinue /\ currentStep = "question") =>
            IF decision.question = EmptyText
            THEN /\ error' = ERR_QUESTION
                 /\ currentStep' = "question"
                 /\ UNCHANGED << formVars, submitted, analysis, loading >>
            ELSE /\ error' = Null
                 /\ currentStep' = "intuition" ]_vars

C1_Witness ==
    /\ lastEvent = "handleContinue"
    /\ currentStep = "question"
    /\ decision.question = EmptyText
    /\ error = ERR_QUESTION

\* C2: advance at step 'intuition' with an empty initialIntuition sets the
\* error to "Please share your initial intuition" and stays; with a non-empty
\* one it clears the error and moves to 'context'.
C2_AdvanceFromIntuition ==
    [][ (handleContinue /\ currentStep = "intuition") =>
            IF initialIntuition = EmptyText
            THEN /\ error' = ERR_INTUITION
                 /\ currentStep' = "intuition"
            ELSE /\ error' = Null
                 /\ currentStep' = "context" ]_vars

C2_Witness ==
    /\ lastEvent = "handleContinue"
    /\ currentStep = "intuition"
    /\ initialIntuition = EmptyText
    /\ error = ERR_INTUITION

\* C3: advance at step 'context' with both options empty sets the error to
\* "Please enter at least one option you are considering", stays at
\* 'context', starts no submission and leaves the stored analysis and the
\* submitted flag unchanged.
C3_AdvanceWithoutOptions ==
    [][ (handleContinue /\ currentStep = "context"
            /\ options[1] = EmptyText /\ options[2] = EmptyText) =>
            /\ error' = ERR_OPTIONS
            /\ currentStep' = "context"
            /\ loading' = FALSE
            /\ pending' = pending
            /\ UNCHANGED << analysis, submitted >> ]_vars

C3_Witness ==
    /\ lastEvent = "handleContinue"
    /\ currentStep = "context"
    /\ options = << EmptyText, EmptyText >>
    /\ error = ERR_OPTIONS
    /\ ~loading

AnalysisShown ==
    /\ currentStep = "analysis"
    /\ analysis # NullAnalysis
    /\ submitted
    /\ error = Null
    /\ ~loading

\* C4: once advance at step 'context' has started a submission (at least one
\* option being non-empty), the run reaches, when the timer fires, a state
\* with step 'analysis', a stored analysis, submitted true, no error and
\* loading false.
C4_SubmissionCompletes ==
    (lastEvent = "handleContinue" /\ loading) ~> (lastEvent = "handleSubmit" /\ AnalysisShown)

C4_Witness ==
    /\ lastEvent = "handleSubmit"
    /\ AnalysisShown
    /\ options[1] # EmptyText \/ options[2] # EmptyText

\* C5: a question edit stores the new text; while submitted is true it also
\* sets submitted to false, the analysis to null and the step to 'question';
\* while submitted is false it changes nothing but the question text and the
\* safety advisory.
C5_QuestionEditInvalidates ==
    [][ \A question \in QuestionTexts :
            handleQuestionChange(question) =>
                /\ decision' = [decision EXCEPT !.question = question]
                /\ IF submitted
                   THEN /\ submitted' = FALSE
                        /\ analysis' = NullAnalysis
                        /\ currentStep' = "question"
                   ELSE UNCHANGED << submitted, analysis, currentStep >>
                /\ UNCHANGED << options, stakes, selectedValues,
                                initialIntuition, confidenceScore, loading,
                                error, flagVars, pending >> ]_vars

\* The journal flag is set only on a shown analysis and cleared only by
\* Start New Decision: here an analysis was invalidated by the edit.
C5_Witness ==
    /\ lastEvent = "handleQuestionChange"
    /\ journalSaved
    /\ ~submitted
    /\ analysis = NullAnalysis
    /\ currentStep = "question"

OtherFieldChange ==
    \/ BalanceChange
    \/ TimeHorizonChange
    \/ InitialIntuitionChange
    \/ OptionChange
    \/ StakesChange
    \/ ValueChange
    \/ ConfidenceChange

\* C6: an edit of any field other than the question, made while an analysis
\* exists, leaves the analysis, the submitted flag and the step unchanged.
C6_OtherEditsKeepAnalysis ==
    [][ (OtherFieldChange /\ analysis # NullAnalysis) =>
            UNCHANGED << analysis, submitted, currentStep >> ]_vars

\* The analysis holds no stakes factor although stakes is now non-empty.
C6_Witness ==
    /\ lastEvent = "handleStakesChange"
    /\ analysis # NullAnalysis
    /\ submitted
    /\ stakes # EmptyText
    /\ Len(analysis.factors) = 3

\* C7: Start New Decision restores every field to its default, clears the
\* analysis and the submitted flag, returns to 'question' and clears the
\* bias-detail, third-option, time-capsule-scheduled and journal-saved flags.
C7_ResetRestoresDefaults ==
    [][ startNewDecision =>
            /\ decision' = [question |-> EmptyText, balanceScore |-> 50,
                            timeHorizon |-> 50]
            /\ options' = << EmptyText, EmptyText >>
            /\ stakes' = EmptyText
            /\ selectedValues' = << >>
            /\ initialIntuition' = EmptyText
            /\ confidenceScore' = 70
            /\ analysis' = NullAnalysis
            /\ submitted' = FALSE
            /\ currentStep' = "question"
            /\ showBiasInfo' = Null
            /\ showThirdOption' = FALSE
            /\ timeCapsuleScheduled' = FALSE
            /\ journalSaved' = FALSE ]_vars

C7_Witness ==
    /\ lastEvent = "startNewDecision"
    /\ edits = MaxEdits
    /\ currentStep = "question"
    /\ confidenceScore = 70
    /\ analysis = NullAnalysis

\* C8: back moves intuition to question, context to intuition and analysis to
\* context, does nothing at 'question', and never changes a field value, the
\* stored analysis or the submitted flag.
C8_BackKeepsState ==
    [][ /\ BackStep("question") = "question"
        /\ handleBack =>
            /\ currentStep = "intuition" => currentStep' = "question"
            /\ currentStep = "context" => currentStep' = "intuition"
            /\ currentStep = "analysis" => currentStep' = "context"
            /\ UNCHANGED << formVars, analysis, submitted >> ]_vars

C8_Witness ==
    /\ lastEvent = "handleBack"
    /\ currentStep = "context"
    /\ analysis # NullAnalysis
    /\ submitted

FieldChangeHandlers ==
    { "handleQuestionChange", "handleBalanceChange", "handleTimeHorizonChange",
      "handleInitialIntuitionChange", "handleOptionChange",
      "handleStakesChange", "handleValueChange" }

FieldChange ==
    \/ QuestionChange
    \/ BalanceChange
    \/ TimeHorizonChange
    \/ InitialIntuitionChange
    \/ OptionChange
    \/ StakesChange
    \/ ValueChange

\* C9 as stated: after any field-change event the validation-error message
\* is none.
C9_ErrorClearedByEdit ==
    lastEvent \in FieldChangeHandlers => error = Null

\* C9, amended: a field-change event leaves the validation-error message as
\* it was; a message is cleared only by an advance that passes validation.
C9_ErrorSurvivesEdit ==
    [][ /\ FieldChange => error' = error
        /\ (error # Null /\ error' = Null) =>
               /\ handleContinue
               /\ currentStep' # currentStep \/ loading' ]_vars

C9_Witness ==
    /\ lastEvent = "handleInitialIntuitionChange"
    /\ currentStep = "intuition"
    /\ initialIntuition # EmptyText
    /\ error = ERR_INTUITION

\* The message handleContinue raises at a step
StepMessage(step) ==
    IF step = "question" THEN ERR_QUESTION
    ELSE IF step = "intuition" THEN ERR_INTUITION
    ELSE ERR_OPTIONS

\* C10: an error message displayed at a step is the message of that step.
C10_ErrorIsStepLocal ==
    (currentStep \in {"question", "intuition", "context"} /\ error # Null)
        => error = StepMessage(currentStep)

-----------------------------------------------------------------------------
(* Properties of the value selection *)

\* C11: in every state reachable through the value-selection interface at
\* most 3 values are selected; with 3 selected, a value that is not selected
\* cannot be added, while each selected value can still be deselected.
C11_AtMostThreeValues ==
    /\ Len(selectedValues) <= 3
    /\ (StepControls("context") /\ Len(selectedValues) = 3) =>
           \A value \in SelectableValues :
               IF Selected(value)
               THEN ENABLED (handleValueChange(value)
                             /\ Len(selectedValues') = 2)
               ELSE ~ENABLED handleValueChange(value)

C11_Witness ==
    /\ lastEvent = "handleValueChange"
    /\ Len(selectedValues) = 3
    /\ edits = 3

-----------------------------------------------------------------------------
(* Properties of the generated analysis *)

\* A suspended handleSubmit resumes in this step; Head(pending) is the state
\* it was started with.
SubmissionResumes == pending # << >> /\ pending' = Tail(pending)

\* The opening sentence of a recommendation
Framing(result) == result.recommendation[1]

\* C12: for every balanceScore in 0..50 at submission the recommendation
\* uses the emotional framing and states the percentage 100 - balanceScore.
C12_EmotionalFraming ==
    [][ (SubmissionResumes /\ Head(pending).decision.balanceScore \in 0..50) =>
            /\ Framing(analysis').kind = "emotional"
            /\ Framing(analysis').percent =
                   100 - Head(pending).decision.balanceScore ]_vars

\* C13: for every balanceScore in 51..100 at submission the recommendation
\* uses the logical framing and states balanceScore itself as the percentage.
C13_LogicalFraming ==
    [][ (SubmissionResumes /\ Head(pending).decision.balanceScore \in 51..100) =>
            /\ Framing(analysis').kind = "logical"
            /\ Framing(analysis').percent =
                   Head(pending).decision.balanceScore ]_vars

C13_Witness ==
    /\ lastEvent = "handleSubmit"
    /\ decision.balanceScore = 80
    /\ Framing(analysis).kind = "logical"
    /\ Framing(analysis).percent = 80

HasBias(result, biasType) ==
    \E i \in 1..Len(result.detectedBiases) :
        result.detectedBiases[i].biasType = biasType

\* The score of the 'Financial impact' factor, which follows the value factors
FinancialScore(result, snap) ==
    result.factors[Len(snap.selectedValues) + 1].score

\* C14: 'Loss Aversion' is in detectedBiases if and only if the drawn
\* financial-impact score is > 70 and the user's balanceScore is < 40, for
\* every balanceScore in 0..100 and every drawn score in 0..99.
C14_LossAversionRule ==
    [][ SubmissionResumes =>
            (HasBias(analysis', "Loss Aversion") <=>
                 /\ FinancialScore(analysis', Head(pending)) > 70
                 /\ Head(pending).decision.balanceScore < 40) ]_vars

\* C15: 'Status Quo Bias' is in detectedBiases if and only if options[0],
\* lower-cased, contains "stay" or "current"; options[1] never affects it.
C15_StatusQuoFirstSlotOnly ==
    [][ SubmissionResumes =>
            (HasBias(analysis', "Status Quo Bias") <=>
                 LET first == ToLowerCase(Head(pending).options[1])
                 IN  \/ Includes(first, <<"s", "t", "a", "y">>)
                     \/ Includes(first, <<"c", "u", "r", "r", "e", "n", "t">>)) ]_vars

C15_Witness ==
    /\ lastEvent = "handleSubmit"
    /\ options = << <<"M", "o", "v", "e">>,
                    <<"S", "t", "a", "y", " ", "c", "u", "r", "r", "e", "n", "t", " ", "j", "o", "b">> >>
    /\ ~HasBias(analysis, "Status Quo Bias")

NonEmptySlots(opts) == { i \in 1..2 : opts[i] # EmptyText }

\* lo <= v <= hi for a coordinate v held in units of 1 / RandDenom
Within(v, lo, hi) == lo * RandDenom <= v /\ v <= hi * RandDenom

\* C16: after every submission optionPositions holds exactly one entry per
\* non-empty option slot (two when both slots are non-empty, also when they
\* hold the same text); option 0's entry has x and y within [15,85], option
\* 1's entry has x and y within [10,45] or [55,90].
C16_OneEntryPerOption ==
    [][ SubmissionResumes =>
            LET opts == Head(pending).options
                pos == analysis'.optionPositions
            IN  /\ Cardinality(DOMAIN pos) = Cardinality(NonEmptySlots(opts))
                /\ opts[1] # EmptyText =>
                       /\ opts[1] \in DOMAIN pos
                       /\ Within(pos[opts[1]].x, 15, 85)
                       /\ Within(pos[opts[1]].y, 15, 85)
                /\ opts[2] # EmptyText =>
                       /\ opts[2] \in DOMAIN pos
                       /\ \/ Within(pos[opts[2]].x, 10, 45)
                          \/ Within(pos[opts[2]].x, 55, 90)
                       /\ \/ Within(pos[opts[2]].y, 10, 45)
                          \/ Within(pos[opts[2]].y, 55, 90) ]_vars

\* C20: the factors are, in order, one '<value> alignment' factor per
\* selected value with score in 60..99 and valueAlignment set to the value,
\* then 'Financial impact', 'Emotional well-being' and 'Long-term
\* consequences' with scores in 0..99, then one 'Impact on <stakes>' factor
\* with score in 0..99 exactly when stakes is non-empty.
C20_FactorsLayout ==
    [][ SubmissionResumes =>
            LET snap == Head(pending)
                vals == snap.selectedValues
                n == Len(vals)
                f == analysis'.factors
            IN  /\ Len(f) = n + 3 + (IF snap.stakes # EmptyText THEN 1 ELSE 0)
                /\ \A i \in 1..n :
                       /\ f[i].name = vals[i] \o <<" ", "a", "l", "i", "g", "n", "m", "e", "n", "t">>
                       /\ f[i].score \in 60..99
                       /\ f[i].valueAlignment = vals[i]
                /\ f[n + 1].name = "Financial impact"
                /\ f[n + 2].name = "Emotional well-being"
                /\ f[n + 3].name = "Long-term consequences"
                /\ \A i \in (n + 1)..(n + 3) : f[i].score \in 0..99
                /\ snap.stakes # EmptyText =>
                       /\ f[n + 4].name = <<"I", "m", "p", "a", "c", "t", " ", "o", "n", " ">> \o snap.stakes
                       /\ f[n + 4].score \in 0..99 ]_vars

C20_Witness ==
    /\ lastEvent = "handleSubmit"
    /\ Len(selectedValues) = 3
    /\ stakes # EmptyText
    /\ Len(analysis.factors) = 7
    /\ analysis.factors[1].score # analysis.factors[2].score

\* The centre line of the compass, in units of 1 / RandDenom
Centre == 50 * RandDenom

\* C21: with both options non-empty and distinct, option 1 lies in the
\* opposite quadrant from option 0's resolved position: option 0's x > 50
\* puts option 1's x below 50, otherwise above 50, and likewise for y.
C21_OppositeQuadrant ==
    [][ (/\ SubmissionResumes
         /\ Head(pending).options[1] # EmptyText
         /\ Head(pending).options[2] # EmptyText
         /\ Head(pending).options[1] # Head(pending).options[2]) =>
            LET p0 == analysis'.optionPositions[Head(pending).options[1]]
                p1 == analysis'.optionPositions[Head(pending).options[2]]
            IN  /\ IF p0.x > Centre THEN p1.x < Centre ELSE p1.x > Centre
                /\ IF p0.y > Centre THEN p1.y < Centre ELSE p1.y > Centre ]_vars

C21_Witness ==
    /\ lastEvent = "handleSubmit"
    /\ options[1] # EmptyText /\ options[2] # EmptyText /\ options[1] # options[2]
    /\ analysis.optionPositions[options[1]].x > Centre
    /\ analysis.optionPositions[options[2]].x < Centre
    /\ analysis.optionPositions[options[1]].y <= Centre
    /\ analysis.optionPositions[options[2]].y > Centre

\* The positions a slider value v can give option 0: v plus a jitter of at
\* most 10, clamped to [15,85]
NearSlider(coordinate, v) ==
    /\ Clamp(15 * RandDenom, 85 * RandDenom, (v - 10) * RandDenom) <= coordinate
    /\ coordinate <= Clamp(15 * RandDenom, 85 * RandDenom, (v + 10) * RandDenom)

\* C22: when options[0] is non-empty its position is the user's
\* (balanceScore, timeHorizon) plus a jitter of at most 10 on each axis,
\* clamped to [15,85], for every balanceScore and timeHorizon in 0..100
\* (balanceScore = 0 gives x = 15, timeHorizon = 0 gives y = 15).
\* Stated for option texts that differ, where option 0 keeps an entry of its
\* own.
C22_FirstOptionNearSliders ==
    [][ (/\ SubmissionResumes
         /\ Head(pending).options[1] # EmptyText
         /\ Head(pending).options[1] # Head(pending).options[2]) =>
            LET p0 == analysis'.optionPositions[Head(pending).options[1]]
            IN  /\ NearSlider(p0.x, Head(pending).decision.balanceScore)
                /\ NearSlider(p0.y, Head(pending).decision.timeHorizon) ]_vars

\* C23: thirdOption is present only if both options were non-empty at
\* submission; with an empty option slot no draw produces a thirdOption.
C23_ThirdOptionNeedsBothOptions ==
    [][ (SubmissionResumes /\ analysis'.thirdOption # Undefined) =>
            /\ Head(pending).options[1] # EmptyText
            /\ Head(pending).options[2] # EmptyText ]_vars

C23_Witness ==
    /\ lastEvent = "handleSubmit"
    /\ options[1] # EmptyText
    /\ options[2] = EmptyText
    /\ analysis.thirdOption = Undefined
    /\ analysis.sentiment.positive > 9 * RandDenom

-----------------------------------------------------------------------------
(* Properties of the submission in flight, the advisory and the steps *)

\* C17: while a submission is pending no second one can be started: advance,
\* back and every field edit are disabled, so at most one submission is in
\* flight in any reachable state.
C17_SingleSubmissionInFlight ==
    /\ Len(pending) <= 1
    /\ pending # << >> =>
           /\ loading
           /\ ~ENABLED handleContinue
           /\ ~ENABLED handleBack
           /\ \A question \in QuestionTexts : ~ENABLED handleQuestionChange(question)
           /\ \A newValue \in SliderValues :
                  /\ ~ENABLED handleBalanceChange(newValue)
                  /\ ~ENABLED handleTimeHorizonChange(newValue)
           /\ \A value \in IntuitionTexts : ~ENABLED handleInitialIntuitionChange(value)
           /\ \A index \in {0, 1} : \A value \in OptionTexts :
                  ~ENABLED handleOptionChange(index, value)
           /\ \A value \in StakesTexts : ~ENABLED handleStakesChange(value)
           /\ \A value \in ValueChoices : ~ENABLED handleValueChange(value)

C17_Witness ==
    /\ lastEvent = "handleContinue"
    /\ Len(pending) = 1
    /\ loading
    /\ analysis # NullAnalysis

\* C18: a question edit whose text contains a denylisted term raises the
\* advisory (dialog open, fixed message) and changes the wizard state as the
\* same edit without such a term would: the text is stored, and step,
\* submitted, analysis, error and all other fields get the same values.
C18_AdvisoryDoesNotAlterWizard ==
    [][ \A question \in QuestionTexts :
            handleQuestionChange(question) =>
                /\ foundHarmfulWord(question) =>
                       showSafetyDialog' /\ safetyMessage' = SAFETY_MESSAGE
                /\ decision' = [decision EXCEPT !.question = question]
                /\ << currentStep', submitted', analysis' >> =
                       IF submitted
                       THEN << "question", FALSE, NullAnalysis >>
                       ELSE << currentStep, submitted, analysis >>
                /\ UNCHANGED << options, stakes, selectedValues,
                                initialIntuition, confidenceScore, error,
                                loading, pending, flagVars >> ]_vars

C18_Witness ==
    /\ lastEvent = "handleQuestionChange"
    /\ foundHarmfulWord(decision.question)
    /\ showSafetyDialog
    /\ safetyMessage = SAFETY_MESSAGE
    /\ timeCapsuleScheduled
    /\ analysis = NullAnalysis
    /\ currentStep = "question"

\* C19: the step value 'confidence' is unreachable: the current step is
\* always one of 'question', 'intuition', 'context', 'analysis'.
C19_ConfidenceStepUnreachable ==
    currentStep \in {"question", "intuition", "context", "analysis"}

C19_Witness ==
    /\ lastEvent = "handleBack"
    /\ currentStep = "question"
    /\ analysis # NullAnalysis

\* C24: submitted is true if and only if the stored analysis is non-null,
\* and at step 'analysis' submitted is true, the analysis is non-null and
\* the validation error is null.
C24_SubmittedIffAnalysis ==
    /\ submitted <=> analysis # NullAnalysis
    /\ currentStep = "analysis" =>
           /\ submitted
           /\ analysis # NullAnalysis
           /\ error = Null

C24_Witness ==
    /\ lastEvent = "handleSubmit"
    /\ currentStep = "analysis"
    /\ submitted
    /\ options[1] = EmptyText
    /\ edits = MaxEdits

\* C25: the time-capsule-scheduled and journal-saved flags, once true, stay
\* true through back, re-submission and a question edit that invalidates the
\* analysis; only Start New Decision sets them back to false.
C25_FlagsOutliveAnalysis ==
    [][ /\ (timeCapsuleScheduled /\ ~timeCapsuleScheduled') => startNewDecision
        /\ (journalSaved /\ ~journalSaved') => startNewDecision
        /\ startNewDecision => (~timeCapsuleScheduled' /\ ~journalSaved') ]_vars

\* A newly generated analysis shown with the flags of the previous one
C25_Witness ==
    /\ lastEvent = "handleSubmit"
    /\ AnalysisView
    /\ timeCapsuleScheduled
    /\ journalSaved

\* C26: while loading is true the step is 'context', at least one option is
\* non-empty and no field value changes, so the analysis stored at resumption
\* is computed from field values equal to the current ones.
C26_ClosureNotStale ==
    /\ [](loading =>
              /\ currentStep = "context"
              /\ options[1] # EmptyText \/ options[2] # EmptyText
              /\ pending # << >>
              /\ Head(pending) = Closure)
    /\ [][loading => UNCHANGED formVars]_vars
    /\ [][SubmissionResumes =>
              \E rnd \in Draws : analysis' = mockAnalysis(Closure, rnd)]_vars

C26_Witness ==
    /\ lastEvent = "handleContinue"
    /\ loading
    /\ stakes # EmptyText
    /\ edits = MaxEdits

=============================================================================
